---- MODULE Spec2Model ----
(***************************************************************************)
(* conntracker (src/src/main.rs): the address codec (hex_to_ipv4,          *)
(* hex_to_ipv6), the /proc/net/tcp table scanner (parse_proc_net_tcp) and  *)
(* the capture loop of main (merge, timestamp, FlatConnection entries,     *)
(* JSON file, Kafka sends, sleep).                                         *)
(*                                                                         *)
(* Text is a sequence of one-character strings, so that splitting and      *)
(* radix parsing are computed character by character as the code does.     *)
(* An unsigned integer of w bits is kept as its w/4 hexadecimal digits,    *)
(* most significant first (u16 also as a number), so that the width and    *)
(* the overflow check of from_str_radix are those of the code.             *)
(***************************************************************************)
EXTENDS Integers, Sequences, FiniteSets, TLC

VARIABLES
    target_endian,  \* "little" | "big": the byte order of the build target
    \* ---- codec harness: one call of hex_to_ipv4 / hex_to_ipv6
    hex,            \* the argument, a sequence of characters
    cpc,            \* "input" | "v4" | "v6": which function was applied
    decoded,        \* the Option<IpAddr> returned
    \* ---- scanner harness: one call of parse_proc_net_tcp
    source,         \* the file at `path`: Unavailable, Unreadable or Ok(its lines)
    is_ipv6,        \* the family flag
    spc,            \* "input" | "scanned" | "reading" (the call never returns)
    port_map,       \* the HashMap<u16, HashSet<String>> returned
    \* ---- main
    pc,             \* position of main
    args,           \* which of --output, --brokers, --topic were given
    maybe_producer, \* a Kafka producer was built (brokers and topic given)
    ports,          \* HashSet<u16> of monitored ports
    proc_tcp,       \* /proc/net/tcp as read in this cycle
    proc_tcp6,      \* /proc/net/tcp6 as read in this cycle
    tcp4, tcp6,     \* the two scan results
    results,        \* the merged map
    timestamp,      \* the cycle's timestamp, once taken
    flat_output,    \* Vec<FlatConnection>
    file,           \* the output file as a reader finds it
    now,            \* the wall clock as the program last read it
    \* ---- history, for stating the properties
    sent,           \* the Kafka loop's log: one record per entry it reached
    cycle,          \* number of completed cycles
    stamps,         \* how many times this cycle read the clock
    first_write_done, \* a write of the output file has completed
    prev            \* the previous cycle: tables, content, timestamp

codecVars == <<hex, cpc, decoded>>
scanVars == <<source, is_ipv6, spc, port_map>>
mainVars == <<pc, args, maybe_producer, ports, proc_tcp, proc_tcp6, tcp4, tcp6,
              results, timestamp, flat_output, file, now, sent, cycle, stamps,
              first_write_done, prev>>
vars == <<target_endian, codecVars, scanVars, mainVars>>

----------------------------------------------------------------------------
(* Bounds of the model.                                                    *)

\* longest IPv4 argument of the codec harness, in byte pairs
MaxBytes4 == 5
\* longest IPv6 argument of the codec harness, in 8-digit words
MaxWords6 == 5
\* most lines of a table in the scanner harness (header included)
MaxLines == 3
\* most cycles of the capture loop
MaxCycles == 2
\* the latest reading of the wall clock; the readings are 0..MaxClock
MaxClock == 2

----------------------------------------------------------------------------
(* Option and small helpers.                                               *)

None == [some |-> FALSE]
Some(v) == [some |-> TRUE, val |-> v]

RECURSIVE Concat(_)
Concat(ss) == IF ss = << >> THEN << >> ELSE Head(ss) \o Concat(Tail(ss))

Reverse(s) == [i \in 1..Len(s) |-> s[Len(s) + 1 - i]]

----------------------------------------------------------------------------
(* from_str_radix(_, 16) of the standard library, for a w-bit unsigned     *)
(* integer.                                                                *)

LowerHex == <<"0","1","2","3","4","5","6","7","8","9","a","b","c","d","e","f">>
UpperHex == <<"0","1","2","3","4","5","6","7","8","9","A","B","C","D","E","F">>

\* char::to_digit(16): the digit's value, or -1 for None
to_digit(c) ==
    IF \E i \in 1..16 : LowerHex[i] = c
    THEN (CHOOSE i \in 1..16 : LowerHex[i] = c) - 1
    ELSE IF \E i \in 1..16 : UpperHex[i] = c
         THEN (CHOOSE i \in 1..16 : UpperHex[i] = c) - 1
         ELSE -1

Zeros(n) == [i \in 1..n |-> 0]

RECURSIVE Accumulate(_, _)
\* result = result.checked_mul(16)?.checked_add(digit)? over the digits:
\* acc holds the w/4 hex digits of result; the product overflows exactly
\* when the top digit is not 0, and the sum then cannot
Accumulate(acc, digits) ==
    IF digits = << >> THEN Some(acc)
    ELSE IF to_digit(Head(digits)) = -1 THEN None
    ELSE IF acc[1] # 0 THEN None
    ELSE Accumulate(Append(Tail(acc), to_digit(Head(digits))), Tail(digits))

\* <uN>::from_str_radix(src, 16).ok(): the value's nibbles, most significant
\* first; an empty string, a lone sign, a '-', a non-digit and an overflow
\* are errors, one leading '+' is accepted
from_str_radix(src, nibbles) ==
    IF src = << >> THEN None
    ELSE IF Len(src) = 1 /\ Head(src) \in {"+", "-"} THEN None
    ELSE IF Head(src) = "+" THEN Accumulate(Zeros(nibbles), Tail(src))
    ELSE Accumulate(Zeros(nibbles), src)

\* the bytes of an integer, most significant first (to_be_bytes)
Bytes(nib) == [i \in 1..(Len(nib) \div 2) |-> 16 * nib[2 * i - 1] + nib[2 * i]]

\* the number a u16 is
U16(nib) == 4096 * nib[1] + 256 * nib[2] + 16 * nib[3] + nib[4]

----------------------------------------------------------------------------
(* The address codec, lines 46-52.  An integer is held as Bytes(_) of its  *)
(* value; to_le / to_be return the integer whose memory representation is  *)
(* the value's little / big-endian bytes: the identity on a target of that *)
(* byte order and swap_bytes on the other.                                 *)

to_le(x) == IF target_endian = "little" THEN x ELSE Reverse(x)
to_be(x) == IF target_endian = "big" THEN x ELSE Reverse(x)

\* Ipv4Addr::from(u32) and Ipv6Addr::from(u128): the octets are the
\* integer's big-endian bytes
IpAddrFrom(x) == x

hex_to_ipv4(h) ==
    LET r == from_str_radix(h, 8)
    IN  IF r.some THEN Some(IpAddrFrom(to_le(Bytes(r.val)))) ELSE None

hex_to_ipv6(h) ==
    LET r == from_str_radix(h, 32)
    IN  IF r.some THEN Some(IpAddrFrom(to_be(Bytes(r.val)))) ELSE None

----------------------------------------------------------------------------
(* Display of Ipv4Addr and Ipv6Addr (ip.to_string(), lines 85 and 87).     *)

Ipv4ToString(o) ==
    ToString(o[1]) \o "." \o ToString(o[2]) \o "." \o ToString(o[3]) \o "." \o ToString(o[4])

RECURSIVE HexDigitsOf(_)
HexDigitsOf(n) == IF n = 0 THEN "" ELSE HexDigitsOf(n \div 16) \o LowerHex[(n % 16) + 1]

\* {:x} of a u16
FmtHex(n) == IF n = 0 THEN "0" ELSE HexDigitsOf(n)

Segments(o) == [i \in 1..8 |-> 256 * o[2 * i - 1] + o[2 * i]]

RECURSIVE fmt_subslice(_)
fmt_subslice(segs) ==
    IF segs = << >> THEN ""
    ELSE IF Len(segs) = 1 THEN FmtHex(segs[1])
    ELSE FmtHex(segs[1]) \o ":" \o fmt_subslice(Tail(segs))

\* the length of the run of zero segments that starts at i
RECURSIVE ZeroRun(_, _)
ZeroRun(segs, i) == IF i > 8 \/ segs[i] # 0 THEN 0 ELSE 1 + ZeroRun(segs, i + 1)

\* the first longest run of zero segments: <<start, len>>
LongestZeroes(segs) ==
    LET best == CHOOSE i \in 1..8 :
                   /\ \A j \in 1..8 : ZeroRun(segs, j) <= ZeroRun(segs, i)
                   /\ \A j \in 1..(i - 1) : ZeroRun(segs, j) < ZeroRun(segs, i)
    IN  <<best, ZeroRun(segs, best)>>

Ipv6ToString(o) ==
    LET segs == Segments(o)
        z == LongestZeroes(segs)
    IN  IF (\A i \in 1..5 : segs[i] = 0) /\ segs[6] = 65535
        THEN "::ffff:" \o Ipv4ToString(SubSeq(o, 13, 16))
        ELSE IF z[2] > 1
             THEN fmt_subslice(SubSeq(segs, 1, z[1] - 1)) \o "::"
                  \o fmt_subslice(SubSeq(segs, z[1] + z[2], 8))
             ELSE fmt_subslice(segs)

----------------------------------------------------------------------------
(* The table scanner, parse_proc_net_tcp, lines 54-100.                    *)

\* io::Result: File::open(path) gives Ok(the file's lines) or Unavailable;
\* BufRead::lines yields Ok(text) or, for a line that is not UTF-8, InvalidUtf8
Ok(v) == Some(v)
Unavailable == None
InvalidUtf8 == None

\* a path that File::open opens and no read can read (a directory): every
\* item of lines() is Err and the iterator never ends
Unreadable == [some |-> TRUE, val |-> << >>, read_fails |-> TRUE]

\* the loop of line 60 never ends on this file
NeverReturns(src) == src = Unreadable

\* char::is_whitespace: the characters with the Unicode property White_Space.
\* Tab, line feed, form feed and carriage return are written as escapes,
\* vertical tab (U+000B) as itself, the others by their code points.
WhiteSpace ==
    {" ", "\t", "\n", "\f", "\r", "", "U+000B", "U+0085", "U+00A0", "U+1680",
     "U+2000", "U+2001", "U+2002", "U+2003", "U+2004", "U+2005", "U+2006",
     "U+2007", "U+2008", "U+2009", "U+200A", "U+2028", "U+2029", "U+202F",
     "U+205F", "U+3000"}

IsWhitespace(c) == c \in WhiteSpace

\* str::split_whitespace().collect(): the maximal runs of non-whitespace
\* characters, in order; the n-th field starts at the n-th position that
\* holds a non-whitespace character and follows whitespace or nothing
split_whitespace(line) ==
    LET starts == {i \in 1..Len(line) :
                      ~IsWhitespace(line[i]) /\ (i = 1 \/ IsWhitespace(line[i - 1]))}
        start(n) == CHOOSE i \in starts : Cardinality({j \in starts : j <= i}) = n
        stop(i) == CHOOSE k \in i..Len(line) :
                      /\ \A j \in i..k : ~IsWhitespace(line[j])
                      /\ (k = Len(line) \/ IsWhitespace(line[k + 1]))
    IN  [n \in 1..Cardinality(starts) |-> SubSeq(line, start(n), stop(start(n)))]

\* str::split_once(':').unwrap_or(("", "")): the text before and after the
\* first colon, or two empty strings when there is none
split_once_or_empty(s) ==
    IF \E i \in 1..Len(s) : s[i] = ":"
    THEN LET k == CHOOSE i \in 1..Len(s) : s[i] = ":" /\ \A j \in 1..(i - 1) : s[j] # ":"
         IN  <<SubSeq(s, 1, k - 1), SubSeq(s, k + 1, Len(s))>>
    ELSE << << >>, << >> >>

\* port_map.entry(port).or_default().insert(ip)
Insert(map, port, ip) ==
    IF port \in DOMAIN map
    THEN [map EXCEPT ![port] = @ \cup {ip}]
    ELSE map @@ (port :> {ip})

\* lines 84-88: the remote address as a string, by the caller's family flag
remote_ip_of(remote_ip_hex, ipv6) ==
    IF ipv6
    THEN (LET r == hex_to_ipv6(remote_ip_hex)
          IN  IF r.some THEN Some(Ipv6ToString(r.val)) ELSE None)
    ELSE (LET r == hex_to_ipv4(remote_ip_hex)
          IN  IF r.some THEN Some(Ipv4ToString(r.val)) ELSE None)

\* ScanLine without the test of the state column
ScanLineAnyState(map, line, portset, ipv6) ==
    IF ~line.some THEN map
    ELSE LET fields == split_whitespace(line.val)
         IN  IF Len(fields) < 4 THEN map
             ELSE LET local_port_hex == split_once_or_empty(fields[2])[2]
                      remote_ip_hex == split_once_or_empty(fields[3])[1]
                      lp == from_str_radix(local_port_hex, 4)
                  IN  IF ~lp.some THEN map
                      ELSE IF U16(lp.val) \notin portset THEN map
                      ELSE LET remote_ip == remote_ip_of(remote_ip_hex, ipv6)
                           IN  IF remote_ip.some
                               THEN Insert(map, U16(lp.val), remote_ip.val)
                               ELSE map

\* lines 65-95: the loop body for one line after the first
ScanLine(map, line, portset, ipv6) ==
    IF ~line.some THEN map
    ELSE LET fields == split_whitespace(line.val)
         IN  IF Len(fields) < 4 THEN map
             ELSE IF fields[4] # <<"0", "1">> THEN map
             ELSE LET local_port_hex == split_once_or_empty(fields[2])[2]
                      remote_ip_hex == split_once_or_empty(fields[3])[1]
                      lp == from_str_radix(local_port_hex, 4)
                  IN  IF ~lp.some THEN map
                      ELSE IF U16(lp.val) \notin portset THEN map
                      ELSE LET remote_ip == remote_ip_of(remote_ip_hex, ipv6)
                           IN  IF remote_ip.some
                               THEN Insert(map, U16(lp.val), remote_ip.val)
                               ELSE map

RECURSIVE ScanFrom(_, _, _, _, _)
\* lines 60-96: the loop over reader.lines().enumerate(), from index i
\* (0-based, as enumerate counts)
ScanFrom(map, lines, i, portset, ipv6) ==
    IF i >= Len(lines) THEN map
    ELSE IF i = 0 THEN ScanFrom(map, lines, i + 1, portset, ipv6)
    ELSE ScanFrom(ScanLine(map, lines[i + 1], portset, ipv6), lines, i + 1, portset, ipv6)

parse_proc_net_tcp(src, portset, ipv6) ==
    IF ~src.some THEN << >>
    ELSE ScanFrom(<< >>, src.val, 0, portset, ipv6)

----------------------------------------------------------------------------
(* Inputs of the harnesses.                                                *)

SeqsUpTo(S, n) == UNION {[1..k -> S] : k \in 0..n}

BytePool == {<<"0","1">>, <<"7","F">>, <<"0","0">>}
WordPool == {<<"0","0","0","0","0","0","0","0">>, <<"0","0","0","0","F","F","F","F">>, <<"2","0","0","1","0","D","B","8">>}
Prefixes == {<< >>, <<"+">>, <<"-">>}
Suffixes == {<< >>, <<"G">>, <<"0">>}

\* 01020304, 0100007F and 0100007f
ExampleHex4 == {<<"0","1","0","2","0","3","0","4">>, <<"0","1","0","0","0","0","7","F">>, <<"0","1","0","0","0","0","7","f">>}

CodecInputs ==
    {pre \o Concat(bs) \o suf :
        pre \in Prefixes, bs \in SeqsUpTo(BytePool, MaxBytes4), suf \in Suffixes}
    \cup {pre \o Concat(ws) \o suf :
        pre \in Prefixes, ws \in SeqsUpTo(WordPool, MaxWords6), suf \in Suffixes}
    \cup ExampleHex4

\* rows of a table, in the layout of /proc/net/tcp and /proc/net/tcp6
\* "  sl  local_address rem_address   st tx_queue rx_queue"
HeaderLine ==
    Ok(<<" "," ","s","l"," "," ","l","o","c","a","l","_","a","d","d","r","e","s","s"," ","r","e","m","_","a","d","d","r","e","s","s"," "," "," ","s","t"," ","t","x","_","q","u","e","u","e"," ","r","x","_","q","u","e","u","e">>)
\* "   0: 0100007F:1A85 01020304:0050 01 00000000:00000000"
RowA ==
    Ok(<<" "," "," ","0",":"," ","0","1","0","0","0","0","7","F",":","1","A","8","5"," ","0","1","0","2","0","3","0","4",":","0","0","5","0"," ","0","1"," ","0","0","0","0","0","0","0","0",":","0","0","0","0","0","0","0","0">>)
\* "   1: 0100007F:1A85 0100007F:C350 01 00000000:00000000"
RowB ==
    Ok(<<" "," "," ","1",":"," ","0","1","0","0","0","0","7","F",":","1","A","8","5"," ","0","1","0","0","0","0","7","F",":","C","3","5","0"," ","0","1"," ","0","0","0","0","0","0","0","0",":","0","0","0","0","0","0","0","0">>)
\* "   2: 00000000:0050 01020304:0051 01 00000000:00000000"
RowC ==
    Ok(<<" "," "," ","2",":"," ","0","0","0","0","0","0","0","0",":","0","0","5","0"," ","0","1","0","2","0","3","0","4",":","0","0","5","1"," ","0","1"," ","0","0","0","0","0","0","0","0",":","0","0","0","0","0","0","0","0">>)
\* "   3: 00000000:1A85 00000000:0000 0A 00000000:00000000"
RowListen ==
    Ok(<<" "," "," ","3",":"," ","0","0","0","0","0","0","0","0",":","1","A","8","5"," ","0","0","0","0","0","0","0","0",":","0","0","0","0"," ","0","A"," ","0","0","0","0","0","0","0","0",":","0","0","0","0","0","0","0","0">>)
\* "   4: 0100007F:1A85 01020304:0050"
RowShort ==
    Ok(<<" "," "," ","4",":"," ","0","1","0","0","0","0","7","F",":","1","A","8","5"," ","0","1","0","2","0","3","0","4",":","0","0","5","0">>)
\* "   5: 0100007F:1A8G 01020304:0050 01"
RowBadPort ==
    Ok(<<" "," "," ","5",":"," ","0","1","0","0","0","0","7","F",":","1","A","8","G"," ","0","1","0","2","0","3","0","4",":","0","0","5","0"," ","0","1">>)
\* "   6: 0100007F1A85 01020304:0050 01"
RowNoColon ==
    Ok(<<" "," "," ","6",":"," ","0","1","0","0","0","0","7","F","1","A","8","5"," ","0","1","0","2","0","3","0","4",":","0","0","5","0"," ","0","1">>)
\* "   7: 0100007F:1A85 0102030G:0050 01"
RowBadIp ==
    Ok(<<" "," "," ","7",":"," ","0","1","0","0","0","0","7","F",":","1","A","8","5"," ","0","1","0","2","0","3","0","G",":","0","0","5","0"," ","0","1">>)
\* "   0: 00000000000000000000000001000000:1A85 20010DB8000000000000000000000001:0050 01"
Row6A ==
    Ok(<<" "," "," ","0",":"," ","0","0","0","0","0","0","0","0","0","0","0","0","0","0","0","0","0","0","0","0","0","0","0","0","0","1","0","0","0","0","0","0",":","1","A","8","5"," ","2","0","0","1","0","D","B","8","0","0","0","0","0","0","0","0","0","0","0","0","0","0","0","0","0","0","0","0","0","0","0","1",":","0","0","5","0"," ","0","1">>)
\* "   1: 0000000000000000FFFF00000100007F:0050 0000000000000000FFFF000001020304:0050 01"
Row6Mapped ==
    Ok(<<" "," "," ","1",":"," ","0","0","0","0","0","0","0","0","0","0","0","0","0","0","0","0","F","F","F","F","0","0","0","0","0","1","0","0","0","0","7","F",":","0","0","5","0"," ","0","0","0","0","0","0","0","0","0","0","0","0","0","0","0","0","F","F","F","F","0","0","0","0","0","1","0","2","0","3","0","4",":","0","0","5","0"," ","0","1">>)
\* RowA with form feeds between its columns and a carriage return after the
\* state column
RowFormFeeds ==
    Ok(<<" "," "," ","0",":","\f","0","1","0","0","0","0","7","F",":","1","A","8","5",
         "\f","0","1","0","2","0","3","0","4",":","0","0","5","0","\f","0","1","\r",
         "0","0","0","0","0","0","0","0",":","0","0","0","0","0","0","0","0">>)

\* the lines the scanner harness draws its tables from
LinePool == {HeaderLine, RowA, RowB, RowC, RowListen, RowShort, RowBadPort,
             RowNoColon, RowBadIp, Row6A, RowFormFeeds, InvalidUtf8}

\* every PortSet the harnesses and main are run with: 6789 = 0x1A85, 80 = 0x50
PortSets == {{6789}, {80, 6789}}

DefaultMain ==
    /\ maybe_producer = FALSE
    /\ proc_tcp = Unavailable /\ proc_tcp6 = Unavailable
    /\ tcp4 = << >> /\ tcp6 = << >> /\ results = << >>
    /\ timestamp = None /\ flat_output = << >> /\ file = None /\ sent = << >>
    /\ now = 0 /\ cycle = 0 /\ stamps = 0 /\ first_write_done = FALSE
    /\ prev = None

NoArgs == [output |-> FALSE, brokers |-> FALSE, topic |-> FALSE]

DefaultCodec == hex = << >> /\ cpc = "idle" /\ decoded = None
DefaultScan == source = Unavailable /\ is_ipv6 = FALSE /\ spc = "idle" /\ port_map = << >>

----------------------------------------------------------------------------
(* The codec harness: hex_to_ipv4 or hex_to_ipv6 applied to one argument.  *)

CodecInit ==
    /\ target_endian \in {"little", "big"}
    /\ hex \in CodecInputs /\ cpc = "input" /\ decoded = None
    /\ DefaultScan
    /\ pc = "idle" /\ args = NoArgs /\ ports = {} /\ DefaultMain

Decode4 ==
    /\ cpc = "input"
    /\ cpc' = "v4"
    /\ decoded' = hex_to_ipv4(hex)
    /\ UNCHANGED <<target_endian, hex, scanVars, mainVars>>

Decode6 ==
    /\ cpc = "input"
    /\ cpc' = "v6"
    /\ decoded' = hex_to_ipv6(hex)
    /\ UNCHANGED <<target_endian, hex, scanVars, mainVars>>

CodecNext == Decode4 \/ Decode6

SpecCodec == CodecInit /\ [][CodecNext]_vars

----------------------------------------------------------------------------
(* The scanner harness: parse_proc_net_tcp applied to one table.           *)

Tables == {Unavailable, Unreadable} \cup {Ok(ls) : ls \in SeqsUpTo(LinePool, MaxLines)}

ScanInit ==
    /\ target_endian \in {"little", "big"}
    /\ source \in Tables /\ is_ipv6 \in BOOLEAN /\ spc = "input" /\ port_map = << >>
    /\ ports \in PortSets
    /\ DefaultCodec
    /\ pc = "idle" /\ args = NoArgs /\ DefaultMain

Scan ==
    /\ spc = "input"
    /\ \/ /\ ~NeverReturns(source)
          /\ spc' = "scanned"
          /\ port_map' = parse_proc_net_tcp(source, ports, is_ipv6)
       \/ /\ NeverReturns(source)
          /\ spc' = "reading"
          /\ UNCHANGED port_map
    /\ UNCHANGED <<target_endian, source, is_ipv6, codecVars, mainVars>>

ScanNext == Scan

SpecScan == ScanInit /\ [][ScanNext]_vars

----------------------------------------------------------------------------
(* main, lines 103-191: start-up, then the capture loop.                   *)

\* get().unwrap_or_default(), line 123
hostname == "node-1"

\* the tables main may find at /proc/net/tcp and /proc/net/tcp6
MainTables4 == {Unavailable, Unreadable, Ok(<<HeaderLine, RowA, RowB>>),
                Ok(<<HeaderLine, RowC, RowListen, RowA>>)}
MainTables6 == {Unavailable, Unreadable, Ok(<<HeaderLine, Row6Mapped>>)}

\* the orders in which a HashMap or HashSet may yield the elements of S
Orders(S) == {s \in [1..Cardinality(S) -> S] : \A i, j \in 1..Cardinality(S) : s[i] = s[j] => i = j}

\* map.into_iter(): the (port, ips) pairs of a map, in each order in which
\* the map may yield them
Pairs(map) ==
    {[i \in 1..Len(o) |-> <<o[i], map[o[i]]>>] : o \in Orders(DOMAIN map)}

\* results.entry(port).or_default().extend(ips) with the entry replaced
ReplaceEntry(map, port, ips) ==
    IF port \in DOMAIN map
    THEN [map EXCEPT ![port] = ips]
    ELSE map @@ (port :> ips)

\* results.entry(port).or_default().extend(ips), line 146
Extend(map, port, ips) ==
    IF port \in DOMAIN map
    THEN [map EXCEPT ![port] = @ \cup ips]
    ELSE map @@ (port :> ips)

RECURSIVE ExtendAll(_, _)
\* the loop of lines 145-147 over tcp4.into_iter().chain(tcp6)
ExtendAll(map, pairs) ==
    IF pairs = << >> THEN map
    ELSE ExtendAll(Extend(map, Head(pairs)[1], Head(pairs)[2]), Tail(pairs))

\* tcp4.into_iter().chain(tcp6), line 145: the sequences it may yield
Chain(t4, t6) == {a \o b : a \in Pairs(t4), b \in Pairs(t6)}

\* a map that still holds what the previous cycle merged
carried_results == IF prev.some THEN prev.val.content ELSE << >>

\* HashMap::new(), line 140
new_results == << >>

\* a timestamp read from the clock for the i-th entry on its own
entry_timestamp_now(i) == now + i

\* timestamp.clone(), line 160
entry_timestamp(i) == timestamp.val

\* lines 155-161
FlatConnection(port, ip_list, i) ==
    [host |-> hostname, port |-> port, unique_ips |-> ip_list,
     count |-> Len(ip_list), timestamp |-> entry_timestamp(i)]

\* what a snapshot says: port -> the set of its addresses
Content(flat) ==
    [p \in {flat[i].port : i \in 1..Len(flat)} |->
        UNION {{flat[i].unique_ips[k] : k \in 1..Len(flat[i].unique_ips)} :
                  i \in {j \in 1..Len(flat) : flat[j].port = p}}]

\* format!("{}:{}", entry.host, entry.port), line 178
KeyOf(entry) == entry.host \o ":" \o ToString(entry.port)

\* where main goes once the file block (lines 166-172) is over
AfterFile(flat) == IF maybe_producer /\ flat # << >> THEN "kafka" ELSE "sleep"

\* a send loop that gives up at the first entry that fails
AfterSendStopOnError(outcome, n) ==
    IF outcome # "ok" \/ n = Len(flat_output) THEN "sleep" ELSE "kafka"

\* the for loop of line 176 after its n-th entry: the next entry, whatever
\* the outcome of this one
AfterSend(outcome, n) == IF n = Len(flat_output) THEN "sleep" ELSE "kafka"

MainInit ==
    /\ target_endian = "little"
    /\ pc = "start"
    /\ args \in [output : BOOLEAN, brokers : BOOLEAN, topic : BOOLEAN]
    /\ ports = {80, 6789}
    /\ DefaultCodec /\ DefaultScan /\ DefaultMain

\* lines 104-137: the usage check and the producer
Startup ==
    /\ pc = "start"
    /\ \/ /\ ~args.output /\ (~args.brokers \/ ~args.topic)
          /\ pc' = "exit"
          /\ UNCHANGED maybe_producer
       \/ /\ args.brokers /\ args.topic
          /\ \/ pc' = "scan4" /\ maybe_producer' = TRUE
             \/ pc' = "panic" /\ UNCHANGED maybe_producer
       \/ /\ args.output /\ ~(args.brokers /\ args.topic)
          /\ pc' = "scan4"
          /\ UNCHANGED maybe_producer
    /\ UNCHANGED <<target_endian, codecVars, scanVars, args, ports, proc_tcp, proc_tcp6,
                   tcp4, tcp6, results, timestamp, flat_output, file, now, sent,
                   cycle, stamps, first_write_done, prev>>

\* lines 140 and 142: a fresh map, then the scan of /proc/net/tcp
ReadTcp4 ==
    /\ pc = "scan4"
    /\ \E t \in MainTables4 :
          /\ proc_tcp' = t
          /\ \/ /\ ~NeverReturns(t)
                /\ tcp4' = parse_proc_net_tcp(t, ports, FALSE)
                /\ pc' = "scan6"
             \/ /\ NeverReturns(t)
                /\ pc' = "reading4"
                /\ UNCHANGED tcp4
    /\ results' = new_results
    /\ sent' = << >>
    /\ stamps' = 0
    /\ UNCHANGED <<target_endian, codecVars, scanVars, args, maybe_producer, ports,
                   proc_tcp6, tcp6, timestamp, flat_output, file, now, cycle,
                   first_write_done, prev>>

\* line 143
ReadTcp6 ==
    /\ pc = "scan6"
    /\ \E t \in MainTables6 :
          /\ proc_tcp6' = t
          /\ \/ /\ ~NeverReturns(t)
                /\ tcp6' = parse_proc_net_tcp(t, ports, TRUE)
                /\ pc' = "merge"
             \/ /\ NeverReturns(t)
                /\ pc' = "reading6"
                /\ UNCHANGED tcp6
    /\ UNCHANGED <<target_endian, codecVars, scanVars, args, maybe_producer, ports,
                   proc_tcp, tcp4, results, timestamp, flat_output, file, now, sent,
                   cycle, stamps, first_write_done, prev>>

\* lines 145-147
Merge ==
    /\ pc = "merge"
    /\ \E pairs \in Chain(tcp4, tcp6) : results' = ExtendAll(results, pairs)
    /\ pc' = "stamp"
    /\ UNCHANGED <<target_endian, codecVars, scanVars, args, maybe_producer, ports,
                   proc_tcp, proc_tcp6, tcp4, tcp6, timestamp, flat_output, file, now,
                   sent, cycle, stamps, first_write_done, prev>>

\* Utc::now(), line 149: what the wall clock reads.  The wall clock is the
\* system's and can be set, back as well as forward, at any time (the sleep
\* of line 189 waits on the monotonic clock and does not bound it), so a
\* reading is unrelated to the one before it: earlier, equal or later
UtcNow == 0..MaxClock

\* line 149
Stamp ==
    /\ pc = "stamp"
    /\ \E t \in UtcNow : now' = t /\ timestamp' = Some(t)
    /\ stamps' = stamps + 1
    /\ pc' = "build"
    /\ UNCHANGED <<target_endian, codecVars, scanVars, args, maybe_producer, ports,
                   proc_tcp, proc_tcp6, tcp4, tcp6, results, flat_output, file,
                   sent, cycle, first_write_done, prev>>

\* lines 151-163: one entry per port of results, ports and addresses in the
\* order the map and the sets yield them
Build ==
    /\ pc = "build"
    /\ \E po \in Orders(DOMAIN results) :
       \E ipo \in [DOMAIN results -> UNION {Orders(results[p]) : p \in DOMAIN results}] :
          /\ \A p \in DOMAIN results : ipo[p] \in Orders(results[p])
          /\ flat_output' = [i \in 1..Len(po) |-> FlatConnection(po[i], ipo[po[i]], i)]
    /\ results' = << >>
    /\ pc' = IF args.output THEN "file" ELSE AfterFile(flat_output')
    /\ UNCHANGED <<target_endian, codecVars, scanVars, args, maybe_producer, ports,
                   proc_tcp, proc_tcp6, tcp4, tcp6, timestamp, file, now, sent, cycle,
                   stamps, first_write_done, prev>>

\* lines 166-168: serialize, then File::create, which truncates the file
CreateFile ==
    /\ pc = "file"
    /\ \/ \* to_string_pretty or File::create failed
          /\ pc' = AfterFile(flat_output)
          /\ UNCHANGED file
       \/ /\ file' = Some([doc |-> flat_output, written |-> "none"])
          /\ pc' = "write"
    /\ UNCHANGED <<target_endian, codecVars, scanVars, args, maybe_producer, ports,
                   proc_tcp, proc_tcp6, tcp4, tcp6, results, timestamp, flat_output,
                   now, sent, cycle, stamps, first_write_done, prev>>

\* line 169: write_all writes the document in one or more writes, and its
\* error is dropped
WriteAll ==
    /\ pc = "write"
    /\ \/ \* a write of a part of the document
          /\ file.val.written = "none"
          /\ file' = Some([file.val EXCEPT !.written = "part"])
          /\ UNCHANGED <<pc, first_write_done>>
       \/ \* the last write
          /\ file' = Some([file.val EXCEPT !.written = "all"])
          /\ first_write_done' = TRUE
          /\ pc' = AfterFile(flat_output)
       \/ \* a write failed
          /\ pc' = AfterFile(flat_output)
          /\ UNCHANGED <<file, first_write_done>>
    /\ UNCHANGED <<target_endian, codecVars, scanVars, args, maybe_producer, ports,
                   proc_tcp, proc_tcp6, tcp4, tcp6, results, timestamp, flat_output,
                   now, sent, cycle, stamps, prev>>

\* lines 176-186, one entry: serialize, send, await the delivery result
KafkaSend ==
    /\ pc = "kafka"
    /\ Len(sent) < Len(flat_output)
    /\ \E outcome \in {"ok", "send_err", "ser_err"} :
          /\ sent' = Append(sent, [key |-> KeyOf(flat_output[Len(sent) + 1]),
                                   port |-> flat_output[Len(sent) + 1].port,
                                   outcome |-> outcome])
          /\ pc' = AfterSend(outcome, Len(sent) + 1)
    /\ UNCHANGED <<target_endian, codecVars, scanVars, args, maybe_producer, ports,
                   proc_tcp, proc_tcp6, tcp4, tcp6, results, timestamp, flat_output,
                   file, now, cycle, stamps, first_write_done, prev>>

\* line 189, sleep(Duration::from_secs(10)) on the monotonic clock, and the
\* end of the loop body: the cycle's values are dropped
Sleep ==
    /\ pc = "sleep"
    /\ cycle + 1 < MaxCycles
    /\ cycle' = cycle + 1
    /\ prev' = Some([proc_tcp |-> proc_tcp, proc_tcp6 |-> proc_tcp6,
                     content |-> Content(flat_output), timestamp |-> timestamp.val])
    /\ tcp4' = << >> /\ tcp6' = << >>
    /\ timestamp' = None
    /\ flat_output' = << >>
    /\ pc' = "scan4"
    /\ UNCHANGED <<target_endian, codecVars, scanVars, args, maybe_producer, ports,
                   proc_tcp, proc_tcp6, results, file, now, sent, stamps,
                   first_write_done>>

Next ==
    \/ Startup
    \/ ReadTcp4
    \/ ReadTcp6
    \/ Merge
    \/ Stamp
    \/ Build
    \/ CreateFile
    \/ WriteAll
    \/ KafkaSend
    \/ Sleep

Spec == MainInit /\ [][Next]_vars

----------------------------------------------------------------------------
(* The aggregation harness: lines 145-163 applied to two scan results.     *)

AddrPool == {"1.2.3.4", "1.0.0.127", "2001:db8::1"}

\* every map from some of the ports 80 and 6789 to non-empty sets of addresses
ScanResults ==
    UNION {[ps -> (SUBSET AddrPool) \ {{}}] : ps \in SUBSET {80, 6789}}

AggregateInit ==
    /\ target_endian = "little"
    /\ pc = "merge"
    /\ args = NoArgs
    /\ ports = {80, 6789}
    /\ tcp4 \in ScanResults /\ tcp6 \in ScanResults
    /\ results = new_results
    /\ maybe_producer = FALSE
    /\ proc_tcp = Unavailable /\ proc_tcp6 = Unavailable
    /\ timestamp = None /\ flat_output = << >> /\ file = None /\ sent = << >>
    /\ now = 0 /\ cycle = 0 /\ stamps = 0 /\ first_write_done = FALSE
    /\ prev = None
    /\ DefaultCodec /\ DefaultScan

AggregateNext == Merge \/ Stamp \/ Build

SpecAggregate == AggregateInit /\ [][AggregateNext]_vars

----------------------------------------------------------------------------
(* Properties of the codec (SpecCodec).                                    *)

\* h is exactly n hexadecimal digits
IsHex(h, n) == Len(h) = n /\ \A i \in 1..Len(h) : to_digit(h[i]) >= 0

\* the value of the i-th byte pair of h as written
PairValue(h, i) == 16 * to_digit(h[2 * i - 1]) + to_digit(h[2 * i])

Hex01020304 == <<"0","1","0","2","0","3","0","4">>

\* C1: on a little-endian target hex_to_ipv4 of the 8 hex digits b0 b1 b2 b3
\* is the address b3.b2.b1.b0, and a table whose one data row is
\* "0100007F:1A85 01020304:0050 01" scanned with PortSet {6789} gives
\* exactly 6789 -> {"4.3.2.1"}.
C1_Ipv4LittleEndian ==
    (cpc = "v4" /\ target_endian = "little" /\ IsHex(hex, 8)) =>
        /\ decoded = Some(<<PairValue(hex, 4), PairValue(hex, 3),
                            PairValue(hex, 2), PairValue(hex, 1)>>)
        /\ hex = Hex01020304 =>
              parse_proc_net_tcp(Ok(<<HeaderLine, RowA>>), {6789}, FALSE)
                  = (6789 :> {"4.3.2.1"})

\* C2: hex_to_ipv6 of 32 hex digits is the address whose 16 bytes are the
\* 16 byte pairs in the order they are written.
C2_Ipv6BigEndian ==
    (cpc = "v6" /\ IsHex(hex, 32)) =>
        decoded = Some([i \in 1..16 |-> PairValue(hex, i)])

\* C3: hex_to_ipv4 fails on every string that is not exactly 8 hex digits
\* and hex_to_ipv6 on every string that is not exactly 32 hex digits.
C3_WrongLengthRejected ==
    /\ (cpc = "v4" /\ ~IsHex(hex, 8)) => decoded = None
    /\ (cpc = "v6" /\ ~IsHex(hex, 32)) => decoded = None

----------------------------------------------------------------------------
(* Properties of the scanner (SpecScan).                                   *)

\* the fields of a line the scan counts: at least 4 of them, the state
\* column "01", a local port that parses and is monitored, a remote
\* address that decodes
Counted(line) ==
    /\ line.some
    /\ LET f == split_whitespace(line.val)
       IN  /\ Len(f) >= 4
           /\ f[4] = <<"0", "1">>
           /\ from_str_radix(split_once_or_empty(f[2])[2], 4).some
           /\ U16(from_str_radix(split_once_or_empty(f[2])[2], 4).val) \in ports
           /\ remote_ip_of(split_once_or_empty(f[3])[1], is_ipv6).some

PortOf(line) ==
    U16(from_str_radix(split_once_or_empty(split_whitespace(line.val)[2])[2], 4).val)

AddrOf(line) ==
    remote_ip_of(split_once_or_empty(split_whitespace(line.val)[3])[1], is_ipv6).val

\* C4: the scan's result maps p to a set holding a exactly when some line
\* other than the first is counted with port p and address a; a port with
\* no such line has no entry.
C4_ScanIsFilteredGrouping ==
    spc = "scanned" =>
        LET rows == IF source.some
                    THEN {i \in 2..Len(source.val) : Counted(source.val[i])}
                    ELSE {}
        IN  /\ DOMAIN port_map = {PortOf(source.val[i]) : i \in rows}
            /\ \A p \in DOMAIN port_map :
                  port_map[p] = {AddrOf(source.val[i]) :
                                     i \in {j \in rows : PortOf(source.val[j]) = p}}

\* a first line that is itself an established row on a monitored port, then
\* a malformed row, then a counted row: only the last one is in the result
C4_Witness ==
    /\ spc = "scanned" /\ ~is_ipv6 /\ target_endian = "little"
    /\ source = Ok(<<RowA, RowShort, RowB>>)
    /\ port_map = (6789 :> {"1.0.0.127"})

----------------------------------------------------------------------------
(* Properties of the aggregation (SpecAggregate) and of the loop (Spec).   *)

\* the addresses a scan result has for a port
At(map, p) == IF p \in DOMAIN map THEN map[p] ELSE {}

\* the positions at which the cycle's snapshot is built
Built == {"file", "write", "kafka", "sleep"}

\* C5: the snapshot has exactly one entry for each port of either scan
\* result and none for another port; the entry's unique_ips holds the union
\* of the port's two address sets, each address once, and count is the
\* number of distinct addresses.
C5_MergeIsUnion ==
    pc \in Built =>
        /\ Len(flat_output) = Cardinality(DOMAIN tcp4 \cup DOMAIN tcp6)
        /\ {flat_output[i].port : i \in 1..Len(flat_output)} = DOMAIN tcp4 \cup DOMAIN tcp6
        /\ \A i \in 1..Len(flat_output) :
              LET e == flat_output[i]
                  ips == {e.unique_ips[k] : k \in 1..Len(e.unique_ips)}
              IN  /\ ips = At(tcp4, e.port) \cup At(tcp6, e.port)
                  /\ Len(e.unique_ips) = Cardinality(ips)
                  /\ e.count = Cardinality(ips)

\* a port in both results with one address in both: one entry, the shared
\* address once
C5_Witness ==
    /\ pc = "sleep"
    /\ tcp4 = (6789 :> {"1.2.3.4", "1.0.0.127"})
    /\ tcp6 = (80 :> {"2001:db8::1"}) @@ (6789 :> {"1.2.3.4"})
    /\ Len(flat_output) = 2
    /\ \E i \in 1..2 : flat_output[i].port = 6789 /\ flat_output[i].count = 2

\* C6: once a write of the output file has completed, a reader finds a
\* complete document in the file at every moment.
C6_FileAlwaysComplete ==
    first_write_done => (file.some /\ file.val.written = "all")

\* the table at a path is missing (File::open fails) or unreadable (it
\* opens and no read succeeds)
MissingOrUnreadable(t) == ~t.some \/ t = Unreadable

\* C7: a missing or unreadable table does not fail the cycle: its scan
\* returns, with the empty map, and the cycle's snapshot then holds exactly
\* the other family's scan result and is delivered.
C7_MissingOrUnreadableTolerated ==
    /\ pc \notin {"reading4", "reading6"}
    /\ pc \in Built =>
          /\ MissingOrUnreadable(proc_tcp6) =>
                (tcp6 = << >> /\ Content(flat_output) = tcp4)
          /\ MissingOrUnreadable(proc_tcp) =>
                (tcp4 = << >> /\ Content(flat_output) = tcp6)
          /\ (pc = "sleep" /\ maybe_producer
                /\ (MissingOrUnreadable(proc_tcp) \/ MissingOrUnreadable(proc_tcp6))) =>
                Len(sent) = Len(flat_output)

\* C8: whatever fails in a cycle (the file, a serialization, a send), the
\* Kafka loop reaches every entry of the snapshot exactly once and in
\* order, the process ends only at start-up, and the loop can go on.
C8_BestEffortDelivery ==
    /\ pc = "kafka" =>
          /\ Len(sent) < Len(flat_output)
          /\ \A i \in 1..Len(sent) : sent[i].port = flat_output[i].port
    /\ (pc = "sleep" /\ maybe_producer) =>
          /\ Len(sent) = Len(flat_output)
          /\ \A i \in 1..Len(sent) : sent[i].port = flat_output[i].port
    /\ pc \in {"exit", "panic"} =>
          (cycle = 0 /\ stamps = 0 /\ sent = << >> /\ file = None /\ ~maybe_producer)
    /\ (pc = "sleep" /\ cycle + 1 < MaxCycles) => ENABLED Sleep

\* the second cycle has begun after a cycle whose file write failed half
\* way and whose first send failed while its second succeeded
C8_Witness ==
    /\ pc = "scan4" /\ cycle = 1
    /\ file.some /\ file.val.written = "part"
    /\ Len(sent) = 2
    /\ sent[1].outcome = "send_err" /\ sent[2].outcome = "ok"

\* C9: a cycle reads the clock once, before any entry is built, and every
\* entry of its snapshot carries that value.
C9_OneTimestampPerCycle ==
    /\ stamps <= 1
    /\ pc = "stamp" => (stamps = 0 /\ flat_output = << >>)
    /\ flat_output # << >> =>
          /\ stamps = 1 /\ timestamp.some
          /\ \A i \in 1..Len(flat_output) : flat_output[i].timestamp = timestamp.val
          /\ \A i, j \in 1..Len(flat_output) :
                flat_output[i].timestamp = flat_output[j].timestamp

\* the second cycle's snapshot has two entries, stamped with another reading
\* of the clock than the first cycle's
C9_Witness ==
    /\ cycle = 1 /\ pc \in Built /\ prev.some
    /\ Len(flat_output) = 2
    /\ flat_output[1].timestamp # prev.val.timestamp

\* C10 as stated: a snapshot built from the same two tables as the previous
\* cycle's has the same port/address content and another timestamp, and an
\* address of the previous snapshot that neither scan of this cycle found is
\* not in this cycle's snapshot.
C10_NoCarryOver ==
    (pc \in Built /\ prev.some) =>
        /\ (proc_tcp = prev.val.proc_tcp /\ proc_tcp6 = prev.val.proc_tcp6) =>
              /\ Content(flat_output) = prev.val.content
              /\ timestamp.val # prev.val.timestamp
        /\ \A p \in DOMAIN prev.val.content : \A a \in prev.val.content[p] :
              (a \notin At(tcp4, p) /\ a \notin At(tcp6, p)) =>
                  a \notin At(Content(flat_output), p)

\* C10 amended: a snapshot built from the same two tables as the previous
\* cycle's has the same port/address content, its timestamp is the one
\* reading of the wall clock its own cycle made (whatever the previous
\* snapshot's was), and an address of the previous snapshot that neither scan
\* of this cycle found is not in this cycle's snapshot.
C10_NoCarryOverOfContent ==
    (pc \in Built /\ prev.some) =>
        /\ (proc_tcp = prev.val.proc_tcp /\ proc_tcp6 = prev.val.proc_tcp6) =>
              /\ Content(flat_output) = prev.val.content
              /\ stamps = 1 /\ timestamp.val = now
        /\ \A p \in DOMAIN prev.val.content : \A a \in prev.val.content[p] :
              (a \notin At(tcp4, p) /\ a \notin At(tcp6, p)) =>
                  a \notin At(Content(flat_output), p)

\* two consecutive cycles that read the same tables, with two ports reported,
\* the second stamped with an earlier reading of the clock than the first
C10_Witness ==
    /\ pc = "sleep" /\ prev.some
    /\ proc_tcp = prev.val.proc_tcp /\ proc_tcp6 = prev.val.proc_tcp6
    /\ prev.val.proc_tcp = Ok(<<HeaderLine, RowC, RowListen, RowA>>)
    /\ Len(flat_output) = 2
    /\ timestamp.val < prev.val.timestamp

====
